---- MODULE Spec2Model ----
(***************************************************************************)
(* Model of model_training_notebook/model.ipynb: the dataset splitter      *)
(* split_data (cell 4) acting on a small file system, followed by the      *)
(* notebook's cells run top to bottom (generators, model assembly, the two *)
(* training runs, evaluation, save).                                       *)
(*                                                                         *)
(* File names are records [stem, ext] so that str.endswith on the          *)
(* extension is computed, not assumed.  A directory is a function from     *)
(* entry names to file contents; a destination root is a record            *)
(* [exists, dirs] where dirs maps class-directory names to directories.    *)
(***************************************************************************)
EXTENDS Integers, Sequences, FiniteSets, TLC

VARIABLES
    source_exists,   \* os.path: does source_dir ('data') exist
    source_dirs,     \* class sub-directories of source_dir: class -> (name -> content)
    source_files,    \* entries of source_dir that are plain files
    train,           \* train_dir: [exists, dirs]
    val,             \* val_dir:   [exists, dirs]
    split_ratio,     \* the split_ratio argument, a rational [num, den]
    pc,              \* position in the notebook / in split_data
    err,             \* the uncaught exception that ended the run, or "none"
    class_queue,     \* what is left of `for class_name in os.listdir(source_dir)`
    class_name,      \* loop variable of line 55
    images,          \* `images` of line 58 for the current class
    train_images,    \* what is left of `for img in train_images`
    val_images,      \* what is left of `for img in val_images`
    copied_train,    \* history: class -> names this run copied into train_dir/class
    copied_val,      \* history: class -> names this run copied into val_dir/class
    listed,          \* history: class -> the filtered listing (`images`) the run saw
    done_classes,    \* history: classes whose loop body ran to its end
    report,          \* what lines 71-72 printed: [train, val], -1 = not printed
    train0,          \* history: train_dir as it was before the run
    val0,            \* history: val_dir as it was before the run
    run,             \* number of the current split_data run (1-based)
    prev_split,      \* history: [train, val] copied sets of the previous run
    class_indices,   \* train_generator.class_indices / validation_generator's classes
    base_model,      \* the InceptionV3 backbone: [loaded, trainable, layers]
    model,           \* the Sequential model: [built, output_dim, compiled, lr, train_set,
                     \*   weights]
    epoch,           \* epochs completed in the current model.fit
    early_stopping,  \* the EarlyStopping callback: [wait, best, best_weights, stopped_epoch]
    reduce_lr,       \* the ReduceLROnPlateau callback: [wait, best]
    history,         \* history: val_loss of the current model.fit, [last, min_epoch, stale]
    val_loss,        \* what the last model.evaluate returned, Unknown before
    trace,           \* history: the notebook steps completed so far, in order
    saved            \* number of times the .h5 file has been written

vars == <<source_exists, source_dirs, source_files, train, val, split_ratio, pc, err,
          class_queue, class_name, images, train_images, val_images, copied_train,
          copied_val, listed, done_classes, report, train0, val0, run, prev_split,
          class_indices, base_model, model, epoch, early_stopping, reduce_lr, history,
          val_loss, trace, saved>>

fsVars == <<source_exists, source_dirs, source_files>>
loopVars == <<class_queue, class_name, images, train_images, val_images>>
histVars == <<train0, val0, run, prev_split>>
cbVars == <<early_stopping, reduce_lr, history, val_loss>>
nbVars == <<class_indices, base_model, model, epoch, cbVars, trace, saved>>

----------------------------------------------------------------------------
(* Bounds of the model *)

MaxImages == 3      \* at most this many image files in a class folder
MaxRuns == 2        \* at most this many runs of split_data on the same directories

----------------------------------------------------------------------------
(* Names, contents and small helpers *)

Classes == {"Healthy", "Fungal_infections"}

ImageExts == <<".jpg", ".jpeg", ".png">>

\* the filter of line 58 left out: every entry of the class folder is taken
AnyName(n) == TRUE

\* line 58: img.endswith(('.jpg', '.jpeg', '.png'))
IsImageName(n) == \E i \in 1..Len(ImageExts) : n.ext = ImageExts[i]

ImageName(i) == [stem |-> i, ext |-> ImageExts[(i % Len(ImageExts)) + 1]]
JunkName == [stem |-> 0, ext |-> ".txt"]
StaleName == [stem |-> 99, ext |-> ".jpg"]
StaleClass == "Old_class"

SrcContent(c, n) == <<c, n.stem>>
StaleContent == <<"stale", 0>>
PartialContent == <<"partial", 0>>

EmptyDir == [n \in {} |-> StaleContent]
NoDirs == [c \in {} |-> EmptyDir]

SeqToSet(s) == {s[i] : i \in 1..Len(s)}

\* all orders in which a directory listing can return the entries S
Orders(S) == {s \in [1..Cardinality(S) -> S] : SeqToSet(s) = S}

CeilDiv(a, b) == (a + b - 1) \div b
FloorDiv(a, b) == a \div b

\* Python's round(): round half to even, on the rational a/b
RoundDiv(a, b) ==
    LET q == a \div b
        r == a % b
    IN  IF 2 * r < b THEN q
        ELSE IF 2 * r > b THEN q + 1
        ELSE IF q % 2 = 0 THEN q ELSE q + 1

----------------------------------------------------------------------------
(* sklearn.model_selection.train_test_split(images, test_size=r, random_state=42) *)

\* numpy RandomState(42).permutation(n), 0-based indices, as ShuffleSplit draws it
Permutation42(n) ==
    CASE n = 0 -> <<>>
      [] n = 1 -> <<0>>
      [] n = 2 -> <<1, 0>>
      [] n = 3 -> <<0, 1, 2>>
      [] n = 4 -> <<1, 3, 0, 2>>
      [] n = 5 -> <<1, 4, 2, 0, 3>>
      [] n = 6 -> <<0, 1, 5, 2, 4, 3>>
      [] n = 7 -> <<0, 1, 5, 2, 4, 3, 6>>
      [] n = 8 -> <<1, 5, 0, 7, 2, 4, 3, 6>>

\* n_test rounded to nearest instead of up
NTestRounded(n, r) == RoundDiv(n * r.num, r.den)

\* n_test = ceil(test_size * n_samples)
NTest(n, r) == CeilDiv(n * r.num, r.den)

\* train_size is None: n_train = n_samples - n_test
NTrain(n, r) == n - NTest(n, r)

\* "the resulting train set will be empty": ValueError
SplitRaises(n, r) == NTrain(n, r) = 0

\* ind_test = permutation[:n_test]
TestIndices(n, r) == [i \in 1..NTest(n, r) |-> Permutation42(n)[i]]

\* the train slice starting one position early: permutation[n_test - 1:...]
TrainIndicesOverlap(n, r) == [i \in 1..NTrain(n, r) |-> Permutation42(n)[NTest(n, r) + i - 1]]

\* ind_train = permutation[n_test:(n_test + n_train)]
TrainIndices(n, r) == [i \in 1..NTrain(n, r) |-> Permutation42(n)[NTest(n, r) + i]]

TrainTestSplit(imgs, r) ==
    LET n == Len(imgs)
        tr == TrainIndices(n, r)
        te == TestIndices(n, r)
    IN  [train |-> [i \in 1..Len(tr) |-> imgs[tr[i] + 1]],
         val   |-> [i \in 1..Len(te) |-> imgs[te[i] + 1]]]

----------------------------------------------------------------------------
(* File-system operations used by split_data *)

\* line 57: os.path.isdir(class_dir)
IsDir(entry) == entry \in DOMAIN source_dirs

\* line 58: the filtered listing, for every order os.listdir may return
ImageListings(dir) == {SelectSeq(o, IsImageName) : o \in Orders(DOMAIN dir)}

\* os.makedirs(os.path.join(root, c), exist_ok=True)
MakeDirs(root, c) ==
    [exists |-> TRUE,
     dirs   |-> IF c \in DOMAIN root.dirs THEN root.dirs
                ELSE [d \in DOMAIN root.dirs \cup {c} |->
                        IF d = c THEN EmptyDir ELSE root.dirs[d]]]

\* a copy that leaves an existing destination file as it is
WriteFileNoOverwrite(dir, n, content) ==
    [m \in DOMAIN dir \cup {n} |-> IF m = n /\ n \notin DOMAIN dir THEN content ELSE dir[m]]

\* shutil.copy(src, dst) seen from the destination directory: creates or overwrites dst
WriteFile(dir, n, content) ==
    [m \in DOMAIN dir \cup {n} |-> IF m = n THEN content ELSE dir[m]]

\* shutil.move in place of shutil.copy: the source entry is gone afterwards
SourceAfterMove(dirs, c, n) ==
    [dirs EXCEPT ![c] = [m \in DOMAIN dirs[c] \ {n} |-> dirs[c][m]]]

\* shutil.copy(src, dst) seen from the source directory: the source is only read
SourceAfterCopy(dirs, c, n) == dirs

\* shutil.copy(os.path.join(class_dir, img), os.path.join(root, c, img))
CopyInto(root, c, n) ==
    [root EXCEPT !.dirs[c] = WriteFile(root.dirs[c], n, source_dirs[c][n])]

\* a copy that raised part-way: the destination may be untouched or left truncated
FailedCopyInto(root, c, n) ==
    {root, [root EXCEPT !.dirs[c] = WriteFile(root.dirs[c], n, PartialContent)]}

\* line 71 / 72: sum(len(os.listdir(os.path.join(root, d))) for d in os.listdir(root))
RECURSIVE SumEntries(_, _)
SumEntries(dirs, ds) ==
    IF ds = {} THEN 0
    ELSE LET d == CHOOSE x \in ds : TRUE
         IN  Cardinality(DOMAIN dirs[d]) + SumEntries(dirs, ds \ {d})

\* len(os.listdir(root)): the class folders counted instead of their entries
CountClassDirs(root) == Cardinality(DOMAIN root.dirs)

CountEntries(root) == SumEntries(root.dirs, DOMAIN root.dirs)

AddCopied(h, c, n) ==
    [d \in DOMAIN h \cup {c} |-> IF d = c THEN (IF c \in DOMAIN h THEN h[c] ELSE {}) \cup {n}
                                  ELSE h[d]]

NoCopies == [c \in {} |-> {}]
NoReport == [train |-> -1, val |-> -1]
----------------------------------------------------------------------------
(* Initial states: the file system before the notebook runs *)

Ratios == {[num |-> 1, den |-> 5], [num |-> 1, den |-> 2]}   \* 0.2 (the default), 0.5

ClassDir(c, n, junk) ==
    [m \in {ImageName(i) : i \in 1..n} \cup (IF junk THEN {JunkName} ELSE {}) |->
        SrcContent(c, m)]

\* every class folder with 0..MaxImages images, with or without non-image entries beside
\* them, and a source root that holds no class folder at all
SourceInits ==
    {[dirs |-> [c \in Classes |-> ClassDir(c, k[c], junk)],
      files |-> IF junk THEN {"README.txt"} ELSE {}] :
        k \in [Classes -> 0..MaxImages], junk \in BOOLEAN}
    \cup {[dirs |-> NoDirs, files |-> {"README.txt"}]}

AbsentRoot == [exists |-> FALSE, dirs |-> NoDirs]
EmptyRoot == [exists |-> TRUE, dirs |-> NoDirs]
StaleRoot ==
    [exists |-> TRUE,
     dirs |-> [c \in {"Healthy", StaleClass} |->
                 IF c = StaleClass THEN [m \in {StaleName} |-> StaleContent]
                 ELSE [m \in {ImageName(1), StaleName} |-> StaleContent]]]

DestInits == {AbsentRoot, EmptyRoot, StaleRoot}
ValInits == {AbsentRoot, StaleRoot}

Inf == 1000000           \* np.Inf, also the loss of weights that were never validated

\* model.get_weights(): the weights model.fit number f had after epoch e, and the
\* validation loss these weights give
Weights(f, e, l) == [fit |-> f, epoch |-> e, val_loss |-> l]

\* weights no epoch has produced (the initial ones; best_weights = None)
NoWeights == Weights(0, 0, Inf)

\* EarlyStopping.on_train_begin
EsTrainBegin == [wait |-> 0, best |-> Inf, best_weights |-> NoWeights, stopped_epoch |-> 0]

\* ReduceLROnPlateau.on_train_begin (_reset)
RlrTrainBegin == [wait |-> 0, best |-> Inf]

\* the History callback before the first epoch
NoHistory == [last |-> Inf, min_epoch |-> 0, stale |-> 0]

NoBase == [loaded |-> FALSE, trainable |-> FALSE, layers |-> {}]
NoModel == [built |-> FALSE, output_dim |-> 0, compiled |-> 0, lr |-> 0, train_set |-> {},
            weights |-> NoWeights]

InitRun ==
    /\ pc = "split_data"
    /\ err = "none"
    /\ class_queue = <<>>
    /\ class_name = ""
    /\ images = <<>>
    /\ train_images = <<>>
    /\ val_images = <<>>
    /\ copied_train = NoCopies
    /\ copied_val = NoCopies
    /\ listed = [c \in {} |-> <<>>]
    /\ done_classes = {}
    /\ report = NoReport
    /\ train0 = train
    /\ val0 = val
    /\ run = 1
    /\ prev_split = [train |-> NoCopies, val |-> NoCopies, listed |-> [c \in {} |-> <<>>]]
    /\ class_indices = [train |-> {}, val |-> {}]
    /\ base_model = NoBase
    /\ model = NoModel
    /\ epoch = 0
    /\ early_stopping = EsTrainBegin
    /\ reduce_lr = RlrTrainBegin
    /\ history = NoHistory
    /\ val_loss = Inf
    /\ trace = <<>>
    /\ saved = 0

Init ==
    /\ source_exists \in BOOLEAN
    /\ \E s \in SourceInits :
         /\ source_dirs = IF source_exists THEN s.dirs ELSE NoDirs
         /\ source_files = IF source_exists THEN s.files ELSE {}
    /\ train \in DestInits
    /\ val \in ValInits
    /\ split_ratio \in Ratios
    /\ InitRun

----------------------------------------------------------------------------
(* split_data, lines 54-72 *)

\* the exception swallowed (try/except around the call): the run goes on where it was
RaiseAndContinue(e) ==
    /\ pc' = pc
    /\ err' = e

\* an exception nothing catches: the run ends where it is
Raise(e) ==
    /\ pc' = "failed"
    /\ err' = e

\* line 55, os.listdir(source_dir)
ListSource ==
    /\ pc = "split_data"
    /\ source_exists
    /\ class_queue' \in Orders(DOMAIN source_dirs \cup source_files)
    /\ pc' = "loop"
    /\ UNCHANGED <<fsVars, train, val, split_ratio, err, class_name, images, train_images,
                   val_images, copied_train, copied_val, listed, done_classes, report,
                   histVars, nbVars>>

\* line 55 when source_dir does not exist: FileNotFoundError
ListSourceMissing ==
    /\ pc = "split_data"
    /\ ~source_exists
    /\ Raise("FileNotFoundError")
    /\ UNCHANGED <<fsVars, train, val, split_ratio, loopVars, copied_train, copied_val,
                   listed, done_classes, report, histVars, nbVars>>

\* lines 55-57: next entry of the listing; entries that are not directories are skipped
NextClass ==
    /\ pc = "loop"
    /\ class_queue # <<>>
    /\ class_name' = Head(class_queue)
    /\ class_queue' = Tail(class_queue)
    /\ pc' = IF IsDir(Head(class_queue)) THEN "list_images" ELSE "loop"
    /\ UNCHANGED <<fsVars, train, val, split_ratio, err, images, train_images, val_images,
                   copied_train, copied_val, listed, done_classes, report, histVars, nbVars>>

\* lines 58-59: list and filter the class folder, then train_test_split
SplitClass ==
    /\ pc = "list_images"
    /\ \E imgs \in ImageListings(source_dirs[class_name]) :
         /\ images' = imgs
         /\ listed' = [c \in DOMAIN listed \cup {class_name} |->
                         IF c = class_name THEN imgs ELSE listed[c]]
         /\ IF SplitRaises(Len(imgs), split_ratio)
            THEN /\ Raise("ValueError")
                 /\ UNCHANGED <<train_images, val_images>>
            ELSE /\ train_images' = TrainTestSplit(imgs, split_ratio).train
                 /\ val_images' = TrainTestSplit(imgs, split_ratio).val
                 /\ pc' = "makedirs"
                 /\ err' = err
    /\ UNCHANGED <<fsVars, train, val, split_ratio, class_queue, class_name, copied_train,
                   copied_val, done_classes, report, histVars, nbVars>>

\* lines 62-63: both destination class directories
MakeClassDirs ==
    /\ pc = "makedirs"
    /\ train' = MakeDirs(train, class_name)
    /\ val' = MakeDirs(val, class_name)
    /\ pc' = "copy_train"
    /\ UNCHANGED <<fsVars, split_ratio, err, loopVars, copied_train, copied_val, listed,
                   done_classes, report, histVars, nbVars>>

\* line 62 or 63 raising (permissions, disk): the first directory may already exist
MakeClassDirsFail ==
    /\ pc = "makedirs"
    /\ train' \in {train, MakeDirs(train, class_name)}
    /\ Raise("OSError")
    /\ UNCHANGED <<fsVars, val, split_ratio, loopVars, copied_train, copied_val, listed,
                   done_classes, report, histVars, nbVars>>

\* lines 66-67: one iteration of `for img in train_images`, or its exit
CopyTrain ==
    /\ pc = "copy_train"
    /\ IF train_images = <<>>
       THEN /\ pc' = "copy_val"
            /\ UNCHANGED <<train, source_dirs, train_images, copied_train>>
       ELSE /\ train' = CopyInto(train, class_name, Head(train_images))
            /\ source_dirs' = SourceAfterCopy(source_dirs, class_name, Head(train_images))
            /\ copied_train' = AddCopied(copied_train, class_name, Head(train_images))
            /\ train_images' = Tail(train_images)
            /\ pc' = pc
    /\ UNCHANGED <<source_exists, source_files, val, split_ratio, err, class_queue,
                   class_name, images, val_images, copied_val, listed, done_classes,
                   report, histVars, nbVars>>

\* line 67 raising (unreadable source file, disk full)
CopyTrainFail ==
    /\ pc = "copy_train"
    /\ train_images # <<>>
    /\ train' \in FailedCopyInto(train, class_name, Head(train_images))
    /\ Raise("OSError")
    /\ UNCHANGED <<fsVars, val, split_ratio, loopVars, copied_train, copied_val, listed,
                   done_classes, report, histVars, nbVars>>

\* lines 68-69: one iteration of `for img in val_images`, or its exit (end of the body)
CopyVal ==
    /\ pc = "copy_val"
    /\ IF val_images = <<>>
       THEN /\ pc' = "loop"
            /\ done_classes' = done_classes \cup {class_name}
            /\ UNCHANGED <<val, source_dirs, val_images, copied_val>>
       ELSE /\ val' = CopyInto(val, class_name, Head(val_images))
            /\ source_dirs' = SourceAfterCopy(source_dirs, class_name, Head(val_images))
            /\ copied_val' = AddCopied(copied_val, class_name, Head(val_images))
            /\ val_images' = Tail(val_images)
            /\ pc' = pc
            /\ UNCHANGED done_classes
    /\ UNCHANGED <<source_exists, source_files, train, split_ratio, err, class_queue,
                   class_name, images, train_images, copied_train, listed, report,
                   histVars, nbVars>>

\* line 69 raising
CopyValFail ==
    /\ pc = "copy_val"
    /\ val_images # <<>>
    /\ val' \in FailedCopyInto(val, class_name, Head(val_images))
    /\ Raise("OSError")
    /\ UNCHANGED <<fsVars, train, split_ratio, loopVars, copied_train, copied_val, listed,
                   done_classes, report, histVars, nbVars>>

\* line 71: the first print; os.listdir(train_dir) raises when train_dir is missing
ReportTrain ==
    /\ pc = "loop"
    /\ class_queue = <<>>
    /\ IF train.exists
       THEN /\ report' = [report EXCEPT !.train = CountEntries(train)]
            /\ pc' = "report_val"
            /\ err' = err
       ELSE /\ Raise("FileNotFoundError")
            /\ UNCHANGED report
    /\ UNCHANGED <<fsVars, train, val, split_ratio, loopVars, copied_train, copied_val,
                   listed, done_classes, histVars, nbVars>>

\* line 72: the second print
ReportVal ==
    /\ pc = "report_val"
    /\ IF val.exists
       THEN /\ report' = [report EXCEPT !.val = CountEntries(val)]
            /\ pc' = "split_done"
            /\ trace' = Append(trace, "split")
            /\ err' = err
            /\ class_queue' = <<>>
            /\ class_name' = ""
            /\ images' = <<>>
            /\ train_images' = <<>>
            /\ val_images' = <<>>
       ELSE /\ Raise("FileNotFoundError")
            /\ UNCHANGED <<report, trace, loopVars>>
    /\ UNCHANGED <<fsVars, train, val, split_ratio, copied_train, copied_val,
                   listed, done_classes, histVars, class_indices, base_model, model,
                   epoch, cbVars, saved>>

SplitData ==
    \/ ListSource
    \/ ListSourceMissing
    \/ NextClass
    \/ SplitClass
    \/ MakeClassDirs
    \/ MakeClassDirsFail
    \/ CopyTrain
    \/ CopyTrainFail
    \/ CopyVal
    \/ CopyValFail
    \/ ReportTrain
    \/ ReportVal

\* the splitter alone, from every bounded file system
Spec == Init /\ [][SplitData]_vars

----------------------------------------------------------------------------
(* The cells after the split, run top to bottom *)

NumLayers == 311         \* len(base_model.layers) of InceptionV3(include_top=False)
FrozenLayers == 249      \* base_model.layers[:249]
Epochs1 == 100           \* epochs of the first model.fit
Epochs2 == 50            \* epochs of the fine-tuning model.fit
Patience == 10           \* EarlyStopping(patience=10)
EsMinDelta == 0          \* EarlyStopping's default min_delta
RlrPatience == 5         \* ReduceLROnPlateau(patience=5)
MinDelta == 1            \* ReduceLROnPlateau's default min_delta = 1e-4, the unit of loss
LR1 == 10000             \* Adam(learning_rate=0.001), in units of 1e-7
LR2 == 1000              \* Adam(learning_rate=0.0001), in units of 1e-7
MinLR == 10              \* ReduceLROnPlateau(min_lr=1e-6), in units of 1e-7

\* ReduceLROnPlateau(factor=0.2)
Factor == [num |-> 1, den |-> 5]

\* how far below (MaxDrop) or above (MaxRise) the lowest val_loss of the run so far the
\* val_loss of a new epoch may lie, in units of 1e-4
MaxDrop == 2
MaxRise == 1

\* val_loss of a new epoch minus the lowest val_loss of the run so far
Losses == (0 - MaxDrop)..MaxRise

\* Losses are kept relative to the lowest val_loss the current model.fit has seen: when
\* an epoch lowers it by s (s <= 0), every loss on record is re-expressed against the
\* new lowest value
Rebase(l, s) == IF l = Inf THEN Inf ELSE l - s

RebaseWeights(w, s) == [w EXCEPT !.val_loss = Rebase(@, s)]

\* EarlyStopping: np.less(current - min_delta, best)
EsImproved(current, best) == current - EsMinDelta < best

\* ReduceLROnPlateau: np.less(current, best - min_delta)
RlrImproved(current, best) == current < best - MinDelta

\* EarlyStopping.on_epoch_end after epoch e, the model holding weights w
EsEpochEnd(es, e, current, w) ==
    IF EsImproved(current, es.best)
    THEN [es EXCEPT !.best = current, !.best_weights = w, !.wait = 0]
    ELSE IF es.wait + 1 >= Patience
         THEN [es EXCEPT !.wait = @ + 1, !.stopped_epoch = e]
         ELSE [es EXCEPT !.wait = @ + 1]

\* restore_best_weights=False: the model keeps the weights of the last epoch
StoppedWeightsLast(es, w) == w

\* restore_best_weights=True: model.set_weights(self.best_weights) when training is stopped
StoppedWeights(es, w) == es.best_weights

\* ReduceLROnPlateau lowers the rate: no improvement, wait reaches patience, and the rate
\* is still above min_lr
RlrReduces(rlr, current, lr) ==
    /\ ~RlrImproved(current, rlr.best)
    /\ rlr.wait + 1 >= RlrPatience
    /\ lr > MinLR

\* new_lr = max(old_lr * factor, min_lr); the quotient is exact whenever it is above
\* min_lr for the rates that occur
ReducedLR(lr) ==
    LET q == (lr * Factor.num) \div Factor.den
    IN  IF q > MinLR THEN q ELSE MinLR

\* ReduceLROnPlateau.on_epoch_end (cooldown = 0): wait is reset by an improvement and by
\* a reduction, and keeps growing once the rate is at min_lr
RlrEpochEnd(rlr, current, lr) ==
    IF RlrImproved(current, rlr.best)
    THEN [rlr EXCEPT !.best = current, !.wait = 0]
    ELSE IF RlrReduces(rlr, current, lr)
         THEN [rlr EXCEPT !.wait = 0]
         ELSE [rlr EXCEPT !.wait = @ + 1]

\* the History callback after epoch e whose val_loss is d away from the lowest so far
HistoryEpochEnd(h, e, d) ==
    IF h.min_epoch = 0 \/ d < 0
    THEN [last |-> 0, min_epoch |-> e, stale |-> 0]
    ELSE [last |-> d, min_epoch |-> h.min_epoch, stale |-> h.stale + 1]

\* the save cell placed right after the first evaluation
CellAfterEarlySave(p) ==
    CASE p = "split_done"    -> "train_generator"
      [] p = "train_generator" -> "val_generator"
      [] p = "val_generator" -> "load_base"
      [] p = "load_base"     -> "freeze"
      [] p = "freeze"        -> "build"
      [] p = "build"         -> "compile1"
      [] p = "compile1"      -> "fit1"
      [] p = "fit1"          -> "evaluate1"
      [] p = "evaluate1"     -> "save"
      [] p = "save"          -> "unfreeze"
      [] p = "unfreeze"      -> "compile2"
      [] p = "compile2"      -> "fit2"
      [] p = "fit2"          -> "evaluate2"
      [] p = "evaluate2"     -> "end"

\* the notebook's cells after split_data, in the order they are run
CellAfter(p) ==
    CASE p = "split_done"    -> "train_generator"
      [] p = "train_generator" -> "val_generator"
      [] p = "val_generator" -> "load_base"
      [] p = "load_base"     -> "freeze"
      [] p = "freeze"        -> "build"
      [] p = "build"         -> "compile1"
      [] p = "compile1"      -> "fit1"
      [] p = "fit1"          -> "evaluate1"
      [] p = "evaluate1"     -> "unfreeze"
      [] p = "unfreeze"      -> "compile2"
      [] p = "compile2"      -> "fit2"
      [] p = "fit2"          -> "evaluate2"
      [] p = "evaluate2"     -> "save"
      [] p = "save"          -> "end"

\* flow_from_directory(root): one class per sub-directory of root
FoundClasses(root) == DOMAIN root.dirs

\* base_model.trainable = False: every layer of the backbone is frozen
FreezeAll(b) == [b EXCEPT !.trainable = FALSE, !.layers = {}]

\* base_model.trainable = True: every layer of the backbone is trainable
UnfreezeAll(b) == [b EXCEPT !.trainable = TRUE, !.layers = 1..NumLayers]

\* base_model.layers[:k - 1]: one layer too few is frozen
FreezeFirstOffByOne(b, k) == [b EXCEPT !.layers = @ \ (1..(k - 1))]

\* for layer in base_model.layers[:k]: layer.trainable = False
FreezeFirst(b, k) == [b EXCEPT !.layers = @ \ (1..k)]

\* lines 365-367
FineTuneSetup(b) == FreezeFirst(UnfreezeAll(b), FrozenLayers)

\* model.compile: the layers the optimizer will update are fixed here
Compile(m, b, rate) ==
    [m EXCEPT !.compiled = @ + 1, !.lr = rate, !.train_set = b.layers]

Finish(step) ==
    /\ pc' = CellAfter(pc)
    /\ trace' = Append(trace, step)

\* lines 91-92 to 148: the cell after the split starts the generators
TrainGenerator ==
    /\ pc = "split_done"
    /\ pc' = CellAfter(pc)
    /\ UNCHANGED <<fsVars, train, val, split_ratio, err, loopVars, copied_train, copied_val,
                   listed, done_classes, report, histVars, nbVars>>

\* lines 148-153
FlowTrain ==
    /\ pc = "train_generator"
    /\ class_indices' = [class_indices EXCEPT !.train = FoundClasses(train)]
    /\ Finish("train_generator")
    /\ UNCHANGED <<fsVars, train, val, split_ratio, err, loopVars, copied_train, copied_val,
                   listed, done_classes, report, histVars, base_model, model, epoch, cbVars,
                   saved>>

\* lines 171-176
FlowVal ==
    /\ pc = "val_generator"
    /\ class_indices' = [class_indices EXCEPT !.val = FoundClasses(val)]
    /\ Finish("val_generator")
    /\ UNCHANGED <<fsVars, train, val, split_ratio, err, loopVars, copied_train, copied_val,
                   listed, done_classes, report, histVars, base_model, model, epoch, cbVars,
                   saved>>

\* line 204: a fresh Keras model is trainable
LoadBase ==
    /\ pc = "load_base"
    /\ base_model' = [loaded |-> TRUE, trainable |-> TRUE, layers |-> 1..NumLayers]
    /\ Finish("load_base")
    /\ UNCHANGED <<fsVars, train, val, split_ratio, err, loopVars, copied_train, copied_val,
                   listed, done_classes, report, histVars, class_indices, model, epoch,
                   cbVars, saved>>

\* line 214
Freeze ==
    /\ pc = "freeze"
    /\ base_model' = FreezeAll(base_model)
    /\ Finish("freeze")
    /\ UNCHANGED <<fsVars, train, val, split_ratio, err, loopVars, copied_train, copied_val,
                   listed, done_classes, report, histVars, class_indices, model, epoch,
                   cbVars, saved>>

\* the class count written into the layer: Dense(4, ...)
OutputDimFixed(ci) == 4

\* line 233: layers.Dense(len(train_generator.class_indices), activation='softmax')
OutputDim(ci) == Cardinality(ci.train)

\* lines 224-234
Build ==
    /\ pc = "build"
    /\ model' = [model EXCEPT !.built = TRUE,
                              !.output_dim = OutputDim(class_indices)]
    /\ Finish("build")
    /\ UNCHANGED <<fsVars, train, val, split_ratio, err, loopVars, copied_train, copied_val,
                   listed, done_classes, report, histVars, class_indices, base_model,
                   epoch, cbVars, saved>>

\* lines 244-246 (and 256-257, which only construct the callbacks)
Compile1 ==
    /\ pc = "compile1"
    /\ model' = Compile(model, base_model, LR1)
    /\ epoch' = 0
    /\ Finish("compile1")
    /\ UNCHANGED <<fsVars, train, val, split_ratio, err, loopVars, copied_train, copied_val,
                   listed, done_classes, report, histVars, class_indices, base_model, cbVars,
                   saved>>

\* one epoch of model.fit number f with callbacks=[early_stopping, reduce_lr]: the
\* callbacks are reset when training begins; after the epoch EarlyStopping runs first
\* (and restores the best weights if it stops the training), then ReduceLROnPlateau; the
\* loop ends at `epochs` or when stop_training is set
FitEpoch(limit, f, step) ==
    /\ epoch < limit
    /\ \E d \in (IF epoch = 0 THEN {0} ELSE Losses) :
         LET e == epoch + 1
             s == IF d < 0 THEN d ELSE 0
             current == d - s
             w == Weights(f, e, current)
             es0 == IF epoch = 0 THEN EsTrainBegin
                    ELSE [early_stopping EXCEPT !.best = Rebase(@, s),
                                                !.best_weights = RebaseWeights(@, s)]
             rlr0 == IF epoch = 0 THEN RlrTrainBegin
                     ELSE [reduce_lr EXCEPT !.best = Rebase(@, s)]
             h0 == IF epoch = 0 THEN NoHistory ELSE history
             es1 == EsEpochEnd(es0, e, current, w)
             stop == es1.stopped_epoch # 0
         IN  /\ epoch' = e
             /\ early_stopping' = es1
             /\ reduce_lr' = RlrEpochEnd(rlr0, current, model.lr)
             /\ history' = HistoryEpochEnd(h0, e, d)
             /\ model' = [model EXCEPT
                            !.weights = IF stop THEN StoppedWeights(es1, w) ELSE w,
                            !.lr = IF RlrReduces(rlr0, current, model.lr)
                                   THEN ReducedLR(model.lr) ELSE model.lr]
             /\ IF stop \/ e = limit
                THEN Finish(step)
                ELSE UNCHANGED <<pc, trace>>
    /\ UNCHANGED <<fsVars, train, val, split_ratio, err, loopVars, copied_train, copied_val,
                   listed, done_classes, report, histVars, class_indices, base_model,
                   val_loss, saved>>

\* lines 326-333
Fit1 ==
    /\ pc = "fit1"
    /\ FitEpoch(Epochs1, 1, "fit1")

\* lines 354-355 and 515-516: evaluation reads the model, nothing else
Evaluate(step) ==
    /\ val_loss' = model.weights.val_loss
    /\ epoch' = 0
    /\ Finish(step)
    /\ UNCHANGED <<fsVars, train, val, split_ratio, err, loopVars, copied_train, copied_val,
                   listed, done_classes, report, histVars, class_indices, base_model, model,
                   early_stopping, reduce_lr, history, saved>>

Evaluate1 ==
    /\ pc = "evaluate1"
    /\ Evaluate("evaluate1")

\* lines 365-367
Unfreeze ==
    /\ pc = "unfreeze"
    /\ base_model' = FineTuneSetup(base_model)
    /\ Finish("unfreeze")
    /\ UNCHANGED <<fsVars, train, val, split_ratio, err, loopVars, copied_train, copied_val,
                   listed, done_classes, report, histVars, class_indices, model, epoch,
                   cbVars, saved>>

\* lines 376-378
Compile2 ==
    /\ pc = "compile2"
    /\ model' = Compile(model, base_model, LR2)
    /\ Finish("compile2")
    /\ UNCHANGED <<fsVars, train, val, split_ratio, err, loopVars, copied_train, copied_val,
                   listed, done_classes, report, histVars, class_indices, base_model, epoch,
                   cbVars, saved>>

\* lines 487-494
Fit2 ==
    /\ pc = "fit2"
    /\ FitEpoch(Epochs2, 2, "fit2")

Evaluate2 ==
    /\ pc = "evaluate2"
    /\ Evaluate("evaluate2")

\* line 573
Save ==
    /\ pc = "save"
    /\ saved' = saved + 1
    /\ Finish("save")
    /\ UNCHANGED <<fsVars, train, val, split_ratio, err, loopVars, copied_train, copied_val,
                   listed, done_classes, report, histVars, class_indices, base_model, model,
                   epoch, cbVars>>

NotebookCells ==
    {"train_generator", "val_generator", "load_base", "freeze", "build", "compile1", "fit1",
     "evaluate1", "unfreeze", "compile2", "fit2", "evaluate2", "save"}

\* any library call of a later cell raising (missing weights, out of memory, I/O); a
\* model.fit that raises is taken at its start, the epochs it completed before being of
\* no consequence once the notebook has stopped
CellFail ==
    /\ pc \in NotebookCells
    /\ pc \in {"fit1", "fit2"} => epoch = 0
    /\ Raise("RuntimeError")
    /\ UNCHANGED <<fsVars, train, val, split_ratio, loopVars, copied_train, copied_val,
                   listed, done_classes, report, histVars, nbVars>>

Notebook ==
    \/ SplitData
    \/ TrainGenerator
    \/ FlowTrain
    \/ FlowVal
    \/ LoadBase
    \/ Freeze
    \/ Build
    \/ Compile1
    \/ Fit1
    \/ Evaluate1
    \/ Unfreeze
    \/ Compile2
    \/ Fit2
    \/ Evaluate2
    \/ Save
    \/ CellFail

\* the cells up to the one that builds the model
Setup ==
    \/ SplitData
    \/ TrainGenerator
    \/ FlowTrain
    \/ FlowVal
    \/ LoadBase
    \/ Freeze
    \/ Build
    \/ CellFail

\* the call of line 91: split_data(base_dir, train_dir, val_dir) with the default ratio
InitSetup ==
    /\ source_exists \in BOOLEAN
    /\ source_dirs = IF source_exists THEN [c \in Classes |-> ClassDir(c, 2, TRUE)]
                     ELSE NoDirs
    /\ source_files = IF source_exists THEN {"README.txt"} ELSE {}
    /\ train \in {AbsentRoot, StaleRoot}
    /\ val = AbsentRoot
    /\ split_ratio = [num |-> 1, den |-> 5]
    /\ InitRun

\* the notebook from its first cell to the model's construction
SpecSetup == InitSetup /\ [][Setup]_vars

\* the call of line 91 on a dataset of a single class folder with two images
InitNotebook ==
    /\ source_exists \in BOOLEAN
    /\ source_dirs = IF source_exists THEN [c \in {"Healthy"} |-> ClassDir(c, 2, FALSE)]
                     ELSE NoDirs
    /\ source_files = IF source_exists THEN {"README.txt"} ELSE {}
    /\ train = AbsentRoot
    /\ val = AbsentRoot
    /\ split_ratio = [num |-> 1, den |-> 5]
    /\ InitRun

\* the whole notebook, top to bottom
SpecNotebook == InitNotebook /\ [][Notebook]_vars

----------------------------------------------------------------------------
(* Running the split cell again on the same directories *)

\* line 91 executed once more after a completed run; the destinations are as that run left them
SplitAgain ==
    /\ pc = "split_done"
    /\ run < MaxRuns
    /\ run' = run + 1
    /\ prev_split' = [train |-> copied_train, val |-> copied_val, listed |-> listed]
    /\ train0' = train
    /\ val0' = val
    /\ pc' = "split_data"
    /\ class_queue' = <<>>
    /\ class_name' = ""
    /\ images' = <<>>
    /\ train_images' = <<>>
    /\ val_images' = <<>>
    /\ copied_train' = NoCopies
    /\ copied_val' = NoCopies
    /\ listed' = [c \in {} |-> <<>>]
    /\ done_classes' = {}
    /\ report' = NoReport
    /\ UNCHANGED <<fsVars, train, val, split_ratio, err, nbVars>>

Rerun ==
    \/ SplitData
    \/ SplitAgain

\* one class folder of 3 images and one of 2, each with a non-image file beside them
RerunSource ==
    [c \in Classes |-> ClassDir(c, IF c = "Healthy" THEN 3 ELSE 2, TRUE)]

InitRerun ==
    /\ source_exists \in BOOLEAN
    /\ source_dirs = IF source_exists THEN RerunSource ELSE NoDirs
    /\ source_files = IF source_exists THEN {"README.txt"} ELSE {}
    /\ train = AbsentRoot
    /\ val = AbsentRoot
    /\ split_ratio = [num |-> 1, den |-> 5]
    /\ InitRun

\* split_data run repeatedly with the same seed, ratio and source contents
SpecRerun == InitRerun /\ [][Rerun]_vars

----------------------------------------------------------------------------
(* The source directory edited between two runs of the split cell *)

\* an image file deleted from a class folder of the source
RemoveImage(dirs, c, n) ==
    [dirs EXCEPT ![c] = [m \in DOMAIN dirs[c] \ {n} |-> dirs[c][m]]]

\* an image file added to a class folder of the source
AddImage(dirs, c, n) ==
    [dirs EXCEPT ![c] = [m \in DOMAIN dirs[c] \cup {n} |->
                           IF m = n THEN SrcContent(c, n) ELSE dirs[c][m]]]

\* between a completed run and the next one, data/<class> gains or loses an image
EditSource ==
    /\ pc = "split_done"
    /\ run < MaxRuns
    /\ \E c \in DOMAIN source_dirs :
         \/ \E n \in {m \in DOMAIN source_dirs[c] : IsImageName(m)} :
              source_dirs' = RemoveImage(source_dirs, c, n)
         \/ \E i \in 1..MaxImages :
              /\ ImageName(i) \notin DOMAIN source_dirs[c]
              /\ source_dirs' = AddImage(source_dirs, c, ImageName(i))
    /\ UNCHANGED <<source_exists, source_files, train, val, split_ratio, pc, err, loopVars,
                   copied_train, copied_val, listed, done_classes, report, histVars, nbVars>>

Reuse ==
    \/ SplitData
    \/ SplitAgain
    \/ EditSource

\* split_data run repeatedly into the same train_dir and val_dir while the source changes
SpecReuse == InitRerun /\ [][Reuse]_vars

----------------------------------------------------------------------------
(* Properties *)

\* an image file as the specification names it: a name ending in .jpg, .jpeg or .png
SpecImage(n) == n.ext \in {".jpg", ".jpeg", ".png"}

SourceImages(c) == {n \in DOMAIN source_dirs[c] : SpecImage(n)}

Copied(h, c) == IF c \in DOMAIN h THEN h[c] ELSE {}

RECURSIVE SumSizes(_, _)
SumSizes(h, ds) ==
    IF ds = {} THEN 0
    ELSE LET d == CHOOSE x \in ds : TRUE
         IN  Cardinality(h[d]) + SumSizes(h, ds \ {d})

TotalCopied(h) == SumSizes(h, DOMAIN h)

\* entries that were in a destination before the run and that the run did not overwrite
LeftOver(root0, h) ==
    SumSizes([c \in DOMAIN root0.dirs |-> DOMAIN root0.dirs[c] \ Copied(h, c)],
             DOMAIN root0.dirs)

\* C1: for every class folder whose loop body has run to its end, the names copied to
\* train/C and to val/C are disjoint and together are exactly the image names of data/C;
\* at every moment of a run no name has been copied to both splits.
C1_DisjointCover ==
    /\ \A c \in done_classes :
         /\ Copied(copied_train, c) \cap Copied(copied_val, c) = {}
         /\ Copied(copied_train, c) \cup Copied(copied_val, c) = SourceImages(c)
    /\ \A c \in DOMAIN copied_train \cup DOMAIN copied_val :
         Copied(copied_train, c) \cap Copied(copied_val, c) = {}

C1_Witness ==
    \E c \in done_classes :
        /\ Cardinality(SourceImages(c)) = MaxImages
        /\ JunkName \in DOMAIN source_dirs[c]
        /\ Cardinality(Copied(copied_train, c)) >= 1
        /\ Cardinality(Copied(copied_val, c)) >= 1

\* C2 as stated: after a successful run every class folder with N images has round(N*r)
\* of them in the validation split, and train and validation counts sum to N.
C2_RoundedCounts ==
    pc = "split_done" =>
        \A c \in DOMAIN source_dirs :
            LET n == Cardinality(SourceImages(c))
            IN  /\ Cardinality(Copied(copied_val, c)) =
                       RoundDiv(n * split_ratio.num, split_ratio.den)
                /\ Cardinality(Copied(copied_train, c))
                       + Cardinality(Copied(copied_val, c)) = n

\* C2 amended: a class folder with N images whose loop body has completed has ceil(N*r)
\* images in the validation split and N - ceil(N*r) >= 1 in the train split; a listed
\* class folder with N - ceil(N*r) = 0 (N = 0, N = 1, ...) makes train_test_split raise
\* ValueError, so nothing of it is copied; 50 images at ratio 0.2 give 40 and 10.
C2_CeilCounts ==
    /\ \A c \in done_classes :
         LET n == Cardinality(SourceImages(c))
             v == CeilDiv(n * split_ratio.num, split_ratio.den)
         IN  /\ Cardinality(Copied(copied_val, c)) = v
             /\ Cardinality(Copied(copied_train, c)) = n - v
             /\ n - v >= 1
    /\ \A c \in DOMAIN listed :
         LET n == Cardinality(SourceImages(c))
             v == CeilDiv(n * split_ratio.num, split_ratio.den)
         IN  n - v = 0 =>
                /\ pc = "failed"
                /\ err = "ValueError"
                /\ c \notin done_classes
                /\ Copied(copied_train, c) \cup Copied(copied_val, c) = {}
    /\ NTest(50, [num |-> 1, den |-> 5]) = 10
    /\ NTrain(50, [num |-> 1, den |-> 5]) = 40

\* a completed class of two images at ratio 0.2: round(0.4) = 0 but one image is in val
C2_Witness ==
    /\ pc = "split_done"
    /\ split_ratio = [num |-> 1, den |-> 5]
    /\ \E c \in done_classes :
         /\ Cardinality(SourceImages(c)) = 2
         /\ Cardinality(Copied(copied_val, c)) = 1

\* C3 as stated: a second run with the same seed, ratio and source contents puts every
\* image in the same split as the first run did, whatever order the listings came in.
C3_SamePartition ==
    (run = 2 /\ pc = "split_done") =>
        /\ copied_train = prev_split.train
        /\ copied_val = prev_split.val

\* C4: no step of split_data, in a run that succeeds or fails, changes the source tree
\* or writes the model file; train_dir and val_dir are the only places written.
C4_SourceUntouched ==
    [][/\ source_exists' = source_exists
       /\ source_dirs' = source_dirs
       /\ source_files' = source_files
       /\ saved' = saved]_vars

\* a run that failed after files had been copied into both splits
C4_Witness ==
    /\ pc = "failed"
    /\ \E c \in DOMAIN copied_train : copied_train[c] # {}
    /\ \E c \in DOMAIN copied_val : copied_val[c] # {}
    /\ \A c \in Classes :
         c \in DOMAIN source_dirs /\ Cardinality(DOMAIN source_dirs[c]) = MaxImages + 1

\* C5: after a successful run every file the run copied is present at its destination
\* with the content of its source file, also where a file of that name was there before.
C5_ContentPreserved ==
    pc = "split_done" =>
        /\ \A c \in DOMAIN copied_train : \A n \in copied_train[c] :
             /\ n \in DOMAIN train.dirs[c]
             /\ train.dirs[c][n] = source_dirs[c][n]
        /\ \A c \in DOMAIN copied_val : \A n \in copied_val[c] :
             /\ n \in DOMAIN val.dirs[c]
             /\ val.dirs[c][n] = source_dirs[c][n]

\* a successful run that copied over a file that was in train_dir before the run
C5_Witness ==
    /\ pc = "split_done"
    /\ \E c \in DOMAIN copied_train \cap DOMAIN train0.dirs :
         \E n \in copied_train[c] \cap DOMAIN train0.dirs[c] :
             /\ train0.dirs[c][n] = StaleContent
             /\ train.dirs[c][n] = SrcContent(c, n)

Written(root, root0) ==
    {<<c, n>> \in UNION {{<<d, m>> : m \in DOMAIN root.dirs[d]} : d \in DOMAIN root.dirs} :
        \/ c \notin DOMAIN root0.dirs
        \/ n \notin DOMAIN root0.dirs[c]
        \/ root.dirs[c][n] # root0.dirs[c][n]}

\* C7: every file the run has written under train/C or val/C carries the name of an image
\* file of data/C, C being a directory of the source root; plain files of the source root
\* never become classes and entries without an image extension are never copied.
C7_LabelsPreserved ==
    /\ \A w \in Written(train, train0) \cup Written(val, val0) :
         /\ w[1] \in DOMAIN source_dirs
         /\ w[1] \notin source_files
         /\ w[2] \in SourceImages(w[1])
    /\ \A c \in (DOMAIN train.dirs \ DOMAIN train0.dirs) \cup (DOMAIN val.dirs \ DOMAIN val0.dirs) :
         c \in DOMAIN source_dirs /\ c \notin source_files
    /\ \A c \in DOMAIN copied_train \cup DOMAIN copied_val :
         /\ c \in DOMAIN source_dirs
         /\ Copied(copied_train, c) \cup Copied(copied_val, c) \subseteq SourceImages(c)

\* a successful run over a source with a plain file in the root and a non-image entry in
\* every class folder
C7_Witness ==
    /\ pc = "split_done"
    /\ source_files # {}
    /\ done_classes = Classes
    /\ \A c \in Classes : JunkName \in DOMAIN source_dirs[c] /\ Copied(copied_train, c) # {}

InTrace(x) == \E i \in 1..Len(trace) : trace[i] = x

Count(x) == Cardinality({i \in 1..Len(trace) : trace[i] = x})

Pos(x) == IF InTrace(x) THEN CHOOSE i \in 1..Len(trace) : trace[i] = x ELSE 0

FineTuned == (FrozenLayers + 1)..NumLayers

C8_Phases ==
    /\ (InTrace("compile1") /\ ~InTrace("unfreeze")) =>
          /\ ~base_model.trainable
          /\ base_model.layers = {}
          /\ model.train_set = {}
          /\ model.compiled = 1
    /\ pc \in {"fit1", "evaluate1", "unfreeze"} => (InTrace("compile1") /\ ~InTrace("unfreeze"))
    /\ InTrace("unfreeze") =>
          /\ InTrace("fit1") /\ InTrace("evaluate1")
          /\ base_model.trainable
          /\ base_model.layers = FineTuned
    /\ InTrace("compile2") =>
          /\ model.train_set = FineTuned
          /\ model.compiled = 2
    /\ pc \in {"fit2", "evaluate2", "save", "end"} => InTrace("compile2")

\* C8: from the first compile until the unfreeze cell every backbone layer is frozen and
\* training updates none of them; the unfreeze cell runs after the first training and its
\* evaluation and leaves exactly the layers after the first 249 trainable; the recompiled
\* model trains exactly those through the second training, the evaluation and the save;
\* once frozen, the backbone's trainability changes in no other step, and only once.
C8_TwoPhase ==
    /\ []C8_Phases
    /\ [][(InTrace("freeze") /\ base_model' # base_model) =>
              (pc = "unfreeze" /\ ~InTrace("unfreeze"))]_vars

\* the second training run under way with the fine-tuning setting
C8_Witness ==
    /\ pc = "fit2"
    /\ epoch >= 2
    /\ base_model.layers = FineTuned
    /\ model.train_set = FineTuned

\* C9: the model file is written at most once, by the last step; when it has been written
\* the split, the first training, the fine-tuning training and the final evaluation have
\* each completed once, in that order, and nothing has failed; a run in which a step has
\* failed has not written it, and a run that reached its end has written it once.
C9_SavedLastOnce ==
    /\ saved <= 1
    /\ saved = Count("save")
    /\ saved = 1 =>
          /\ pc = "end"
          /\ err = "none"
          /\ trace[Len(trace)] = "save"
          /\ \A x \in {"split", "fit1", "fit2", "evaluate2"} : Count(x) = 1
          /\ Pos("split") < Pos("fit1")
          /\ Pos("fit1") < Pos("fit2")
          /\ Pos("fit2") < Pos("evaluate2")
          /\ Pos("evaluate2") < Pos("save")
    /\ err # "none" => saved = 0
    /\ pc = "end" => saved = 1

\* the notebook ran to its end
C9_Witness ==
    /\ pc = "end"
    /\ saved = 1
    /\ InTrace("fit2")

\* nothing that was in a destination root is gone from it
Kept(r, r2) ==
    /\ r.exists => r2.exists
    /\ \A c \in DOMAIN r.dirs :
         /\ c \in DOMAIN r2.dirs
         /\ DOMAIN r.dirs[c] \subseteq DOMAIN r2.dirs[c]

C11_OutputDimIsClassCount ==
    /\ model.built =>
          /\ model.output_dim = Cardinality(DOMAIN train.dirs)
          /\ class_indices.train = DOMAIN train.dirs
    /\ (model.built /\ train0.dirs = NoDirs /\ val0.dirs = NoDirs) =>
          /\ model.output_dim = Cardinality(DOMAIN source_dirs)
          /\ class_indices.train = DOMAIN source_dirs
          /\ class_indices.val = class_indices.train

\* the model built after a split into destinations that did not exist
C11_Witness ==
    /\ model.built
    /\ train0 = AbsentRoot
    /\ val0 = AbsentRoot
    /\ model.output_dim = Cardinality(Classes)
    /\ source_files # {}

Fits == {"fit1", "fit2"}

\* the cell a model.fit hands over to, and the epochs it was given
FitOf(p) == IF p \in {"fit1", "evaluate1"} THEN 1 ELSE 2

EpochsOf(p) == IF p \in {"fit1", "evaluate1"} THEN Epochs1 ELSE Epochs2

\* the callbacks and the history still describe the training run that ended last
EndedEarly == history.stale >= Patience

\* a step of a training run: one more epoch
FitStep == pc \in Fits /\ epoch' = epoch + 1

\* the new epoch's val_loss is a new lowest one and more than 1e-4 below the best value
\* ReduceLROnPlateau had on record
FellBelowBest == reduce_lr'.best = 0 /\ history'.stale = 0

\* max(0.2 * lr, 1e-6)
C12_Lowered(lr) ==
    IF lr * Factor.num >= MinLR * Factor.den THEN (lr * Factor.num) \div Factor.den
    ELSE MinLR

\* the training runs end at their epoch limit or at the tenth epoch in a row without a
\* new lowest val_loss, and an early stop leaves the weights of the lowest val_loss
C12_RunsStop ==
    /\ pc \in Fits =>
          /\ epoch < EpochsOf(pc)
          /\ epoch > 0 => history.stale < Patience
    /\ pc \in {"evaluate1", "evaluate2"} =>
          /\ epoch >= 1
          /\ epoch <= EpochsOf(pc)
          /\ history.stale <= Patience
          /\ EndedEarly \/ epoch = EpochsOf(pc)
          /\ EndedEarly =>
                /\ history.min_epoch = epoch - Patience
                /\ model.weights = Weights(FitOf(pc), history.min_epoch, 0)
    /\ (pc \in {"unfreeze", "compile2"} \/ (pc = "fit2" /\ epoch = 0)) =>
          (EndedEarly => val_loss = 0)
    /\ pc \in {"save", "end"} => (EndedEarly => val_loss = 0)
    /\ model.compiled > 0 => (model.lr >= MinLR /\ model.lr <= LR1)

\* C12 as stated: each training run ends within its epoch limit and stops as soon as ten
\* epochs in a row brought no new lowest val_loss, the model then holding the weights of
\* the epoch with the lowest val_loss, whose loss the evaluation reports; the learning
\* rate never goes below 1e-6 and is lowered (to 0.2 times its value, 1e-6 at least) only
\* at the end of five epochs in a row that brought no new lowest val_loss.
C12_RateAfterFiveStale ==
    /\ []C12_RunsStop
    /\ [][(FitStep /\ model'.lr # model.lr) =>
              /\ history'.stale >= RlrPatience
              /\ model'.lr = C12_Lowered(model.lr)]_vars

\* C12 amended: as above for the runs' end, the restored weights and the evaluation; the
\* learning rate is lowered only by ReduceLROnPlateau, whose counter counts the epochs
\* since val_loss last fell more than 1e-4 below the callback's own best value or since
\* the last reduction: the rate becomes max(0.2 * lr, 1e-6) at the end of the epoch in
\* which that counter reaches 5 while the rate is above 1e-6, even when the epoch or one
\* of the four before it brought a new lowest val_loss by 1e-4 or less, and it changes at
\* no other moment of a run.
C12_RunsStopRateOnPlateau ==
    /\ []C12_RunsStop
    /\ []((pc \in Fits /\ epoch > 0 /\ model.lr > MinLR) => reduce_lr.wait < RlrPatience)
    /\ [](reduce_lr.best # Inf => (reduce_lr.best >= 0 /\ reduce_lr.best <= MinDelta))
    /\ [][FitStep =>
              /\ model'.lr # model.lr =>
                    /\ epoch > 0
                    /\ reduce_lr.wait = RlrPatience - 1
                    /\ reduce_lr'.wait = 0
                    /\ ~FellBelowBest
                    /\ model.lr > MinLR
                    /\ model'.lr = C12_Lowered(model.lr)
              /\ (model'.lr = model.lr /\ epoch > 0 /\ reduce_lr.wait >= RlrPatience - 1) =>
                    \/ model.lr = MinLR
                    \/ FellBelowBest]_vars
    /\ [][(pc \in Fits /\ pc' # "failed") => epoch' = epoch + 1]_vars
    /\ [][(model'.lr # model.lr) => (pc \in Fits \/ pc \in {"compile1", "compile2"})]_vars

\* the fine-tuning run was stopped early with the rate lowered to 1e-6 on the way, the best
\* epoch being neither the first nor the last, and the evaluation has reported its loss
C12_Witness ==
    /\ InTrace("evaluate2")
    /\ EndedEarly
    /\ history.min_epoch > 1
    /\ history.last > 0
    /\ model.lr = MinLR
    /\ model.weights = Weights(2, history.min_epoch, 0)
    /\ val_loss = 0

\* the source is as the run that just completed listed it (not edited since)
SourceAsListed ==
    /\ DOMAIN listed = DOMAIN source_dirs
    /\ \A c \in DOMAIN listed : SeqToSet(listed[c]) = SourceImages(c)

\* C13 as stated: after every successful run into reused destinations, for every class C
\* no file name is in both train/C and val/C, and train/C and val/C hold only images that
\* are in data/C now.
C13_ValidSplitAfterReruns ==
    (pc = "split_done" /\ SourceAsListed) =>
        \A c \in DOMAIN train.dirs \cap DOMAIN val.dirs :
            /\ DOMAIN train.dirs[c] \cap DOMAIN val.dirs[c] = {}
            /\ c \in DOMAIN source_dirs
            /\ DOMAIN train.dirs[c] \cup DOMAIN val.dirs[c] \subseteq SourceImages(c)
====
